---- MODULE Spec2Model ----
(***************************************************************************)
(* The client side of the pair-programming session:                        *)
(*   - WebSocketService (services/websocket.ts): one object per call of    *)
(*     `new WebSocketService(roomId)`, with the browser WebSockets it      *)
(*     creates, their handlers and its own 2000 ms reconnect;              *)
(*   - CodeEditor (components/CodeEditor.tsx): the React state and refs of *)
(*     the component, its inbound message switch, its editor listeners,    *)
(*     its reconnect with exponential backoff and its unmount cleanup.     *)
(* The browser runs one handler at a time, so each handler is one action.  *)
(* A timer is pending from setTimeout until it fires or is cleared, and    *)
(* keeps the delay it was armed with; a pending timer fires at some later  *)
(* step, in any order with the other pending timers and network events,    *)
(* which covers every order the delays allow.                              *)
(***************************************************************************)
EXTENDS Integers, Sequences, FiniteSets, TLC

\* ------------------------------------------------------------------ bounds
\* WebSocketService objects ever constructed by the session with its editor.
MaxServices == 2
\* WebSocketService objects ever constructed / WebSockets ever created in
\* the connection layer checked alone.
ConnMaxServices == 4
ConnMaxSockets == 5
\* The same for the backoff sequence, which needs six failures in a row
\* to reach its ceiling.
BackoffMaxServices == 6
BackoffMaxSockets == 6
\* Suggestion requests ever started.
MaxRequests == 2
\* Keystrokes typed in a room of two clients.
MaxRoomEdits == 3
\* Steps of the clock while the cursor throttle is watched (half a throttle
\* interval each) and while the suggestion debounce is watched (a fifth of a
\* debounce interval each).
MaxThrottleTicks == 6
MaxDebounceTicks == 6
MaxTimedEdits == 2
\* Connections the server refuses or drops before it accepts every one.
MaxDrops == 1
\* Suggestions in one response.
MaxSuggestions == 2

\* ------------------------------------------------------- program constants
maxReconnectAttempts == 5
reconnectDelay == 2000
InitialReconnectTimeout == 1000
MaxReconnectTimeout == 30000
CursorThrottleMs == 100
AiDebounceMs == 500
MinRequestIntervalMs == 1000
\* data.confidence > 0.7, in hundredths.
ConfidenceThreshold == 70

Min(a, b) == IF a < b THEN a ELSE b

\* ------------------------------------------------------------------ values
\* JavaScript's undefined, and a null reference.
Undefined == "undefined"
NoRef == 0

InitialCode == "# Start coding here..."
Texts == {InitialCode, "a", "b"}
\* Payload values the client only stores and forwards are opaque strings.
UserIds == {"u1", "u2"}
HomePosition == "1:1"
Positions == {HomePosition, "2:3"}
InitialUserCount == "1"
UserCounts == {InitialUserCount, "2"}

\* ------------------------------------------------------------------- state
VARIABLES
    \* React state of CodeEditor
    code, connected, userCount, isReconnecting, aiLoading,
    \* refs of CodeEditor
    editorRef, wsService, remoteUsers, isRemoteChange, reconnectTimeout,
    reconnectTimer, cursorUpdateThrottle, aiRequestController, aiDebounceTimer,
    \* the component is mounted (false once the useEffect cleanup has run)
    mounted,
    \* the Monaco editor: its text, its cursor and its painted decorations
    editorValue, editorPosition, editorDecorations,
    \* the WebSocketService objects and the browser's WebSockets
    services, sockets,
    \* the suggestion requests (fetch calls) started so far
    requests,
    \* what the last handler was and what it transmitted
    lastOp, wire,
    \* reconnects the session has scheduled since it last handled an init
    reconnectRun,
    \* a room: two instances of the component, the relay between them and the
    \* envelopes in transit
    room,
    \* a connected session with its editor, watched against a clock: the
    \* time, when its timers are due, and what it last did and when
    timed

reactVars == <<code, connected, userCount, isReconnecting, aiLoading>>
refVars == <<editorRef, wsService, remoteUsers, isRemoteChange, reconnectTimeout,
    reconnectTimer, cursorUpdateThrottle, aiRequestController, aiDebounceTimer>>
editorVars == <<editorValue, editorPosition, editorDecorations>>
netVars == <<services, sockets>>
singleVars == <<reactVars, refVars, mounted, editorVars, netVars, requests, lastOp, wire,
    reconnectRun>>
vars == <<singleVars, room, timed>>

\* The whole state as one record, so that a handler is a function from the
\* state before it to the state after it and handlers compose in the order
\* the code calls them.
Cur ==
    [code |-> code, connected |-> connected, userCount |-> userCount,
     isReconnecting |-> isReconnecting, aiLoading |-> aiLoading,
     editorRef |-> editorRef, wsService |-> wsService, remoteUsers |-> remoteUsers,
     isRemoteChange |-> isRemoteChange, reconnectTimeout |-> reconnectTimeout,
     reconnectTimer |-> reconnectTimer, cursorUpdateThrottle |-> cursorUpdateThrottle,
     aiRequestController |-> aiRequestController, aiDebounceTimer |-> aiDebounceTimer,
     mounted |-> mounted, editorValue |-> editorValue,
     editorPosition |-> editorPosition, editorDecorations |-> editorDecorations,
     services |-> services, sockets |-> sockets, requests |-> requests,
     wire |-> <<>>]

Commit(s) ==
    /\ code' = s.code /\ connected' = s.connected /\ userCount' = s.userCount
    /\ isReconnecting' = s.isReconnecting /\ aiLoading' = s.aiLoading
    /\ editorRef' = s.editorRef /\ wsService' = s.wsService
    /\ remoteUsers' = s.remoteUsers /\ isRemoteChange' = s.isRemoteChange
    /\ reconnectTimeout' = s.reconnectTimeout /\ reconnectTimer' = s.reconnectTimer
    /\ cursorUpdateThrottle' = s.cursorUpdateThrottle
    /\ aiRequestController' = s.aiRequestController
    /\ aiDebounceTimer' = s.aiDebounceTimer /\ mounted' = s.mounted
    /\ editorValue' = s.editorValue /\ editorPosition' = s.editorPosition
    /\ editorDecorations' = s.editorDecorations
    /\ services' = s.services /\ sockets' = s.sockets /\ requests' = s.requests
    /\ wire' = s.wire

Commit0(s) ==
    /\ code = s.code /\ connected = s.connected /\ userCount = s.userCount
    /\ isReconnecting = s.isReconnecting /\ aiLoading = s.aiLoading
    /\ editorRef = s.editorRef /\ wsService = s.wsService
    /\ remoteUsers = s.remoteUsers /\ isRemoteChange = s.isRemoteChange
    /\ reconnectTimeout = s.reconnectTimeout /\ reconnectTimer = s.reconnectTimer
    /\ cursorUpdateThrottle = s.cursorUpdateThrottle
    /\ aiRequestController = s.aiRequestController
    /\ aiDebounceTimer = s.aiDebounceTimer /\ mounted = s.mounted
    /\ editorValue = s.editorValue /\ editorPosition = s.editorPosition
    /\ editorDecorations = s.editorDecorations
    /\ services = s.services /\ sockets = s.sockets /\ requests = s.requests
    /\ wire = s.wire

\* A React state setter: the update is dropped once the component is unmounted.
SetState(s, field, v) == IF s.mounted THEN [s EXCEPT ![field] = v] ELSE s

\* ------------------------------------------------------ WebSocketService
\* WebSocket.close(): a connecting or open socket starts closing, its close
\* event comes later; on a closing or closed socket the call does nothing.
SocketClose(s, w) ==
    [s EXCEPT !.sockets[w].readyState =
        IF @ \in {"CONNECTING", "OPEN"} THEN "CLOSING" ELSE @]

\* A connect() that carries the registered handlers over to the new
\* WebSocket, to compare with.
ConnectKeepsHandlers(s, v) ==
    LET w == Len(s.sockets) + 1
    IN  [s EXCEPT !.sockets = Append(@, [svc |-> v, readyState |-> "CONNECTING",
                                        onclose |-> "callback", onmessage |-> TRUE]),
                  !.services[v].ws = w]

\* connect(): a new WebSocket with the service's own onopen and onclose.
Connect(s, v) ==
    LET w == Len(s.sockets) + 1
    IN  [s EXCEPT !.sockets = Append(@, [svc |-> v, readyState |-> "CONNECTING",
                                        onclose |-> "default", onmessage |-> FALSE]),
                  !.services[v].ws = w]

\* An attemptReconnect() that allows one attempt more, to compare with.
SvcAttemptReconnectOneMore(s, v) ==
    IF s.services[v].reconnectAttempts <= maxReconnectAttempts
    THEN [s EXCEPT !.services[v].reconnectAttempts = @ + 1,
                   !.services[v].timers = Append(@, reconnectDelay)]
    ELSE s

\* attemptReconnect() of the service: up to maxReconnectAttempts timers of
\* reconnectDelay ms, each calling connect().
SvcAttemptReconnect(s, v) ==
    IF s.services[v].reconnectAttempts < maxReconnectAttempts
    THEN [s EXCEPT !.services[v].reconnectAttempts = @ + 1,
                   !.services[v].timers = Append(@, reconnectDelay)]
    ELSE s

\* onMessage(callback) and onClose(callback): set on the socket the service
\* holds at the time of the call, if any.
OnMessage(s, v) ==
    LET w == s.services[v].ws
    IN  IF w # NoRef THEN [s EXCEPT !.sockets[w].onmessage = TRUE] ELSE s

OnClose(s, v) ==
    LET w == s.services[v].ws
    IN  IF w # NoRef THEN [s EXCEPT !.sockets[w].onclose = "callback"] ELSE s

\* A send that does not look at readyState, to compare with.
SendWhateverState(s, v, message) ==
    LET w == s.services[v].ws
    IN  IF w # NoRef
        THEN [s EXCEPT !.wire = Append(@, [sock |-> w, message |-> message])]
        ELSE s

\* send(message): transmitted only on an open socket.
Send(s, v, message) ==
    LET w == s.services[v].ws
    IN  IF w # NoRef /\ s.sockets[w].readyState = "OPEN"
        THEN [s EXCEPT !.wire = Append(@, [sock |-> w, message |-> message])]
        ELSE s

SendCodeUpdate(s, v, newCode) ==
    Send(s, v, [type |-> "code_update", code |-> newCode, position |-> Undefined])

\* disconnect(): close the held socket and forget it; the socket keeps its
\* onclose handler.
Disconnect(s, v) ==
    LET w == s.services[v].ws
    IN  IF w # NoRef
        THEN [SocketClose(s, w) EXCEPT !.services[v].ws = NoRef]
        ELSE s

\* ws.onopen as connect() sets it.
SocketOnOpen(s, w) == [s EXCEPT !.services[s.sockets[w].svc].reconnectAttempts = 0]

\* new WebSocketService(roomId): the constructor calls connect().
NewWebSocketService(s) ==
    LET v == Len(s.services) + 1
        s1 == [s EXCEPT !.services = Append(@, [ws |-> NoRef, reconnectAttempts |-> 0,
                                               timers |-> <<>>])]
    IN  Connect(s1, v)

\* ------------------------------------------------- suggestion pipeline
NoDebounce == [st |-> "null", code |-> Undefined, position |-> Undefined]

\* AbortController.abort() on the stored controller.
Abort(s) ==
    IF s.aiRequestController # NoRef
    THEN [s EXCEPT !.requests[s.aiRequestController].aborted = TRUE]
    ELSE s

\* triggerAIAutocomplete(code, position): clear the debounce timer, abort the
\* stored controller, arm the 500 ms timer.
TriggerAIAutocomplete(s, newCode, position) ==
    IF position = Undefined \/ newCode = ""
    THEN s
    ELSE [Abort(s) EXCEPT !.aiDebounceTimer =
            [st |-> "pending", code |-> newCode, position |-> position]]

\* fetchAISuggestions(code, position) up to its first await.
FetchAISuggestions(s, newCode, position) ==
    LET r == Len(s.requests) + 1
        s1 == SetState(s, "aiLoading", TRUE)
    IN  [s1 EXCEPT !.aiRequestController = r,
                   !.requests = Append(@, [code |-> newCode, position |-> position,
                                           status |-> "pending", aborted |-> FALSE,
                                           result |-> "none"])]

\* The callback of the debounce timer.
AiDebounceCallback(s) ==
    FetchAISuggestions([s EXCEPT !.aiDebounceTimer.st = "fired"],
                       s.aiDebounceTimer.code, s.aiDebounceTimer.position)

\* requestAutocomplete(): the click handler of the button.
requestAutocomplete(s) ==
    IF s.editorRef THEN FetchAISuggestions(s, s.editorValue, s.editorPosition) ELSE s

\* A fetchAISuggestions that shows whatever the fetch ends with, to compare
\* with.
FetchSettledSurfacesAll(s, r, outcome) ==
    LET s1 == [s EXCEPT !.requests[r].status = "settled",
                        !.requests[r].result = "surfaced"]
        s2 == SetState(s1, "aiLoading", FALSE)
    IN  [s2 EXCEPT !.aiRequestController = NoRef]

\* A fetchAISuggestions whose failure takes the session offline, to compare
\* with.
FetchSettledFatal(s, r, outcome) ==
    LET s1 == [s EXCEPT !.requests[r].status = "settled",
                        !.requests[r].result =
                            IF outcome = "good" THEN "surfaced" ELSE "silent"]
        s2 == SetState(s1, "aiLoading", FALSE)
        s3 == IF outcome = "failed" THEN SetState(s2, "connected", FALSE) ELSE s2
    IN  [s3 EXCEPT !.aiRequestController = NoRef]

\* The rest of fetchAISuggestions once the fetch settles: try, catch, finally.
FetchSettled(s, r, outcome) ==
    LET s1 == [s EXCEPT !.requests[r].status = "settled",
                        !.requests[r].result =
                            IF outcome = "good" THEN "surfaced" ELSE "silent"]
        s2 == SetState(s1, "aiLoading", FALSE)
    IN  [s2 EXCEPT !.aiRequestController = NoRef]

\* ------------------------------------------------------ editor listeners
NoThrottle == [st |-> "null", position |-> Undefined]

\* A sendCursorUpdate that sets a timer on every call, to compare with.
SendCursorUpdateEveryCall(s, position) ==
    [s EXCEPT !.cursorUpdateThrottle = [st |-> "pending", position |-> position]]

\* sendCursorUpdate(line, column): one 100 ms timer at a time.
SendCursorUpdate(s, position) ==
    IF s.cursorUpdateThrottle.st # "null"
    THEN s
    ELSE [s EXCEPT !.cursorUpdateThrottle = [st |-> "pending", position |-> position]]

\* The callback of the throttle timer: send the position the timer was armed
\* with, then forget the timer.
CursorThrottleCallback(s) ==
    LET msg == [type |-> "cursor_update", code |-> Undefined,
                position |-> s.cursorUpdateThrottle.position]
        s1 == IF s.wsService # NoRef THEN Send(s, s.wsService, msg) ELSE s
    IN  [s1 EXCEPT !.cursorUpdateThrottle = NoThrottle]

\* editor.onDidChangeCursorPosition listener.
CursorListener(s) ==
    IF ~s.isRemoteChange THEN SendCursorUpdate(s, s.editorPosition) ELSE s

\* editor.onDidChangeModelContent listener.
ContentListener(s) ==
    IF ~s.isRemoteChange
    THEN LET newCode == s.editorValue
             s1 == SetState(s, "code", newCode)
             s2 == IF s1.wsService # NoRef
                   THEN SendCodeUpdate(s1, s1.wsService, newCode)
                   ELSE s1
         IN  TriggerAIAutocomplete(s2, newCode, s2.editorPosition)
    ELSE s

\* Monaco's editor.setValue(text): the text is replaced, the cursor goes home,
\* and both listeners run before setValue returns.
EditorSetValue(s, text) ==
    LET s1 == ContentListener([s EXCEPT !.editorValue = text])
    IN  CursorListener([s1 EXCEPT !.editorPosition = HomePosition])

\* An editor that is never read-only, to compare with.
ReadOnlyNever(s) == FALSE

\* The readOnly option of the editor as the component renders it.
ReadOnly(s) == ~s.connected

\* handleEditorDidMount: Monaco has loaded and shows the value prop; the
\* listeners are attached from here on.
HandleEditorDidMount(s) ==
    [s EXCEPT !.editorRef = TRUE,
              !.editorValue = IF s.code = Undefined THEN "" ELSE s.code]

\* A keystroke of the user: the text changes and the content listener runs,
\* then the cursor moves and the cursor listener runs.
UserTypes(s, text, position) ==
    LET s1 == ContentListener([s EXCEPT !.editorValue = text])
    IN  CursorListener([s1 EXCEPT !.editorPosition = position])

\* -------------------------------------------------------- remote cursors
USER_COLORS == <<"#FF6B6B", "#4ECDC4", "#45B7D1", "#96CEB4", "#FFEAA7",
                 "#DDA15E", "#BC6C25", "#F4A261", "#E76F51", "#2A9D8F">>

\* The UTF-16 code units of an identifier.
CharCodes(userId) ==
    CASE userId = "u1" -> <<117, 49>>
      [] userId = "u2" -> <<117, 50>>
      [] OTHER -> <<>>

RECURSIVE SumSeq(_)
SumSeq(q) == IF q = <<>> THEN 0 ELSE Head(q) + SumSeq(Tail(q))

\* A color function that gives every user the first color, to compare with.
getUserColorFirst(userId) == USER_COLORS[1]

getUserColor(userId) == USER_COLORS[(SumSeq(CharCodes(userId)) % Len(USER_COLORS)) + 1]

\* editor.deltaDecorations(old, new): the old handles are released and one
\* new decoration is painted; the handle is the least one not in use.
FreshHandle(s) ==
    CHOOSE h \in 1..(Cardinality(DOMAIN s.editorDecorations) + 1) :
        h \notin DOMAIN s.editorDecorations

Release(decos, handles) == [h \in (DOMAIN decos) \ handles |-> decos[h]]

updateRemoteCursor(s, userId, userName, position) ==
    IF ~s.editorRef
    THEN s
    ELSE LET old == IF userId \in DOMAIN s.remoteUsers
                    THEN s.remoteUsers[userId]
                    ELSE [userName |-> userName, position |-> position,
                          color |-> getUserColor(userId), decorations |-> {}]
             kept == Release(s.editorDecorations, old.decorations)
             h == FreshHandle([s EXCEPT !.editorDecorations = kept])
             user == [old EXCEPT !.position = position, !.decorations = {h}]
         IN  [s EXCEPT !.editorDecorations =
                           [x \in (DOMAIN kept) \cup {h} |->
                               IF x = h THEN [owner |-> userId, position |-> position]
                               ELSE kept[x]],
                       !.remoteUsers =
                           [u \in (DOMAIN @) \cup {userId} |->
                               IF u = userId THEN user ELSE @[u]]]

\* A removeRemoteCursor that forgets the user and leaves the decorations
\* painted, to compare with.
removeRemoteCursorKeepsDecorations(s, userId) ==
    IF ~s.editorRef
    THEN s
    ELSE [s EXCEPT !.remoteUsers = [u \in (DOMAIN @) \ {userId} |-> @[u]]]

removeRemoteCursor(s, userId) ==
    IF ~s.editorRef
    THEN s
    ELSE IF userId \in DOMAIN s.remoteUsers
         THEN [s EXCEPT !.editorDecorations =
                           Release(@, s.remoteUsers[userId].decorations),
                       !.remoteUsers = [u \in (DOMAIN @) \ {userId} |-> @[u]]]
         ELSE s

\* ------------------------------------------------------------ envelopes
KnownTypes == {"init", "code_update", "cursor_update", "user_joined", "user_left"}

Envelope(type, hasData, text, userId, position, count) ==
    [type |-> type, hasData |-> hasData, code |-> text, user_id |-> userId,
     position |-> position, user_count |-> count]

\* The frames a server can put on the wire, over given payload values: the
\* five envelope types with their fields present or missing, an unrecognized
\* type, and text that is not JSON.
NotJson == [type |-> "not json"]

CodeEnvelopes(texts) ==
    {Envelope(t, TRUE, c, Undefined, Undefined, Undefined) :
        t \in {"init", "code_update"}, c \in texts \cup {Undefined}}

CursorEnvelopes(users, positions) ==
    {Envelope("cursor_update", TRUE, Undefined, u, p, Undefined) :
        u \in users \cup {Undefined}, p \in positions \cup {Undefined}}

CountEnvelopes(users, counts) ==
    {Envelope("user_joined", TRUE, Undefined, Undefined, Undefined, n) :
        n \in counts \cup {Undefined}}
    \cup {Envelope("user_left", TRUE, Undefined, u, Undefined, n) :
        u \in users \cup {Undefined}, n \in counts \cup {Undefined}}

BareEnvelopes ==
    {Envelope(t, FALSE, Undefined, Undefined, Undefined, Undefined) :
        t \in KnownTypes \cup {"ping"}}

UnknownEnvelopes(texts, counts) ==
    {Envelope("ping", TRUE, c, Undefined, Undefined, n) :
        c \in texts \cup {Undefined}, n \in counts \cup {Undefined}}

\* A frame of a known type with the fields its case reads unguarded or
\* requires; the user_id of user_left is optional to the switch.
WellFormed(m) ==
    /\ m # NotJson
    /\ m.type \in KnownTypes
    /\ m.hasData
    /\ m.type \in {"init", "code_update"} => m.code # Undefined
    /\ m.type = "cursor_update" => m.user_id # Undefined /\ m.position # Undefined
    /\ m.type \in {"user_joined", "user_left"} => m.user_count # Undefined

\* What is recorded of a frame once it has been handled.
Describe(m) ==
    IF m = NotJson
    THEN [type |-> "not json", shape |-> "not json", code |-> Undefined,
          user_id |-> Undefined, position |-> Undefined]
    ELSE IF m.type \notin KnownTypes
         THEN [type |-> "unknown", shape |-> "unknown", code |-> Undefined,
               user_id |-> Undefined, position |-> Undefined]
         ELSE IF WellFormed(m)
              THEN [type |-> m.type, shape |-> "ok", code |-> m.code,
                    user_id |-> m.user_id, position |-> m.position]
              ELSE [type |-> m.type,
                    shape |-> IF m.hasData THEN "no field" ELSE "no data",
                    code |-> Undefined, user_id |-> Undefined, position |-> Undefined]

\* What editor.setValue(undefined) does is Monaco's business: it throws or it
\* leaves the text alone.  The choice arises only for a frame without its code.
SetValueOutcomes(m) ==
    IF m # NotJson /\ m.type \in {"init", "code_update"} /\ m.hasData
          /\ m.code = Undefined
    THEN {"throws", "ignores"}
    ELSE {"throws"}

\* ---------------------------------------------- CodeEditor: the session
NoReconnectTimer == [st |-> "null", delay |-> 0]

\* A doubling without the ceiling, to compare with.
NextReconnectTimeoutNoCeiling(t) == t * 2

\* Math.min(reconnectTimeout.current * 2, 30000)
NextReconnectTimeout(t) == Min(t * 2, MaxReconnectTimeout)

\* An attemptReconnect that gives up once the backoff is at its ceiling, to
\* compare with.
AttemptReconnectCapped(s) ==
    IF s.reconnectTimer.st # "null" \/ s.reconnectTimeout >= MaxReconnectTimeout
    THEN s
    ELSE [SetState(s, "isReconnecting", TRUE) EXCEPT !.reconnectTimer =
            [st |-> "pending", delay |-> s.reconnectTimeout]]

\* attemptReconnect(): one timer at a time, armed with the current backoff.
AttemptReconnect(s) ==
    IF s.reconnectTimer.st # "null"
    THEN s
    ELSE [SetState(s, "isReconnecting", TRUE) EXCEPT !.reconnectTimer =
            [st |-> "pending", delay |-> s.reconnectTimeout]]

\* A close callback that schedules no reconnect, to compare with.
OnCloseCallbackNoReconnect(s) == SetState(s, "connected", FALSE)

\* The callback given to wsService.onClose.
OnCloseCallback(s) == AttemptReconnect(SetState(s, "connected", FALSE))

\* An init case that leaves the backoff alone, to compare with.
ResetBackoffMissing(s) == s

\* reconnectTimeout.current = 1000 in case 'init'.
ResetBackoff(s) == [s EXCEPT !.reconnectTimeout = InitialReconnectTimeout]

\* A remote write that does not raise the flag, to compare with.
BeginRemoteChangeMissing(s) == s

\* isRemoteChange.current = true / = false around a remote write.
BeginRemoteChange(s) == [s EXCEPT !.isRemoteChange = TRUE]
EndRemoteChange(s) == [s EXCEPT !.isRemoteChange = FALSE]

\* editor.setValue(message.data.code) followed by isRemoteChange.current =
\* false; a throw of setValue skips that statement.
SetValueThenEnd(s, text, lib) ==
    IF text = Undefined
    THEN IF lib = "throws" THEN s ELSE EndRemoteChange(s)
    ELSE EndRemoteChange(EditorSetValue(s, text))

\* An init case that sets the React state and leaves the editor's text
\* alone, to compare with.
HandleInitKeepsBuffer(s, m, lib) ==
    IF ~m.hasData
    THEN s
    ELSE LET s1 == SetState(s, "code", m.code)
             s2 == SetState(s1, "connected", TRUE)
             s3 == SetState(s2, "isReconnecting", FALSE)
         IN  ResetBackoff(s3)

\* An init case that leaves the reconnecting indicator alone, to compare
\* with.
HandleInitKeepsIndicator(s, m, lib) ==
    IF ~m.hasData
    THEN s
    ELSE LET s1 == SetState(s, "code", m.code)
             s2 == SetState(s1, "connected", TRUE)
             s4 == ResetBackoff(s2)
         IN  IF s4.editorRef /\ m.code # s4.editorValue
             THEN SetValueThenEnd(BeginRemoteChange(s4), m.code, lib)
             ELSE s4

\* case 'init'
HandleInit(s, m, lib) ==
    IF ~m.hasData
    THEN s
    ELSE LET s1 == SetState(s, "code", m.code)
             s2 == SetState(s1, "connected", TRUE)
             s3 == SetState(s2, "isReconnecting", FALSE)
             s4 == ResetBackoff(s3)
         IN  IF s4.editorRef /\ m.code # s4.editorValue
             THEN SetValueThenEnd(BeginRemoteChange(s4), m.code, lib)
             ELSE s4

\* A code_update case that sets the React state and leaves the editor's
\* text alone, to compare with.
HandleCodeUpdateKeepsBuffer(s, m, lib) ==
    LET s1 == BeginRemoteChange(s)
    IN  IF ~m.hasData
        THEN s1
        ELSE EndRemoteChange(SetState(s1, "code", m.code))

\* A code_update case that calls setValue whatever the editor shows, to
\* compare with.
HandleCodeUpdateAlwaysSets(s, m, lib) ==
    LET s1 == BeginRemoteChange(s)
    IN  IF ~m.hasData
        THEN s1
        ELSE LET s2 == SetState(s1, "code", m.code)
             IN  IF s2.editorRef
                 THEN SetValueThenEnd(s2, m.code, lib)
                 ELSE EndRemoteChange(s2)

\* case 'code_update'
HandleCodeUpdate(s, m, lib) ==
    LET s1 == BeginRemoteChange(s)
    IN  IF ~m.hasData
        THEN s1
        ELSE LET s2 == SetState(s1, "code", m.code)
             IN  IF s2.editorRef /\ m.code # s2.editorValue
                 THEN SetValueThenEnd(s2, m.code, lib)
                 ELSE EndRemoteChange(s2)

\* case 'cursor_update'
HandleCursorUpdate(s, m) ==
    IF ~m.hasData
    THEN s
    ELSE IF m.user_id # Undefined /\ m.position # Undefined
         THEN updateRemoteCursor(s, m.user_id, "Anonymous", m.position)
         ELSE s

\* case 'user_joined': case 'user_left'
HandleUserCount(s, m) ==
    IF ~m.hasData
    THEN s
    ELSE LET s1 == SetState(s, "userCount", m.user_count)
         IN  IF m.type = "user_left" /\ m.user_id # Undefined
             THEN removeRemoteCursor(s1, m.user_id)
             ELSE s1

\* A switch whose unmatched tags run the user_joined case, to compare with.
SwitchCaseFallsThrough(type) == IF type \in KnownTypes THEN type ELSE "user_joined"

\* The case the switch takes for a type tag.
SwitchCase(type) == IF type \in KnownTypes THEN type ELSE "none"

\* ws.onmessage as registered by onMessage: JSON.parse, then the callback of
\* initializeWebSocket; whatever either throws is caught and logged.
OnMessageHandler(s, m, lib) ==
    IF m = NotJson
    THEN s
    ELSE CASE SwitchCase(m.type) = "init" -> HandleInit(s, m, lib)
           [] SwitchCase(m.type) = "code_update" -> HandleCodeUpdate(s, m, lib)
           [] SwitchCase(m.type) = "cursor_update" -> HandleCursorUpdate(s, m)
           [] SwitchCase(m.type) \in {"user_joined", "user_left"} -> HandleUserCount(s, m)
           [] OTHER -> s

\* An initializeWebSocket() that starts the new connection without remote
\* users, to compare with.
InitializeWebSocketForgetsUsers(s) ==
    LET s1 == NewWebSocketService(s)
        v == Len(s1.services)
        s2 == OnClose(OnMessage([s1 EXCEPT !.wsService = v], v), v)
    IN  [s2 EXCEPT !.remoteUsers = [u \in {} |-> Undefined],
                   !.editorDecorations = [h \in {} |-> Undefined]]

\* initializeWebSocket(): a new service, with the message switch and the
\* close callback registered on it.
InitializeWebSocket(s) ==
    LET s1 == NewWebSocketService(s)
        v == Len(s1.services)
    IN  OnClose(OnMessage([s1 EXCEPT !.wsService = v], v), v)

\* The callback of the session's reconnect timer.
ReconnectTimerCallback(s) ==
    LET s1 == IF s.wsService # NoRef THEN Disconnect(s, s.wsService) ELSE s
        s2 == InitializeWebSocket(s1)
    IN  [s2 EXCEPT !.reconnectTimer = NoReconnectTimer,
                   !.reconnectTimeout = NextReconnectTimeout(@)]

\* ws.onclose: the one connect() sets, or the one onClose(callback) sets.
SocketOnClose(s, w) ==
    LET v == s.sockets[w].svc
    IN  IF s.sockets[w].onclose = "callback"
        THEN SvcAttemptReconnect(OnCloseCallback(s), v)
        ELSE SvcAttemptReconnect(s, v)

\* clearTimeout(ref.current): the timer is cancelled, the ref keeps its handle.
Cleared(timer) == IF timer.st = "pending" THEN [timer EXCEPT !.st = "cleared"] ELSE timer

\* The cleanup the useEffect returns.
Cleanup(s) ==
    LET s1 == [s EXCEPT !.reconnectTimer = Cleared(@),
                        !.cursorUpdateThrottle = Cleared(@),
                        !.aiDebounceTimer = Cleared(@)]
        s2 == Abort(s1)
    IN  IF s2.wsService # NoRef THEN Disconnect(s2, s2.wsService) ELSE s2

\* ----------------------------------------------------------------- actions
\* Every action is one turn of the browser's event loop.  Observe records
\* what it handled, whether a handled frame replaced the editor's text or
\* released a decoration without painting another, and keeps the count of
\* reconnects scheduled in a row.
Observe(op, s) ==
    /\ lastOp' = IF op.name = "Receive"
                 THEN [op EXCEPT !.wrote = (s.editorValue # editorValue),
                                 !.released = (Cardinality(DOMAIN s.editorDecorations)
                                                 < Cardinality(DOMAIN editorDecorations))]
                 ELSE op
    /\ reconnectRun' =
        IF op.name = "Receive" /\ op.frame.type = "init"
              /\ op.frame.shape \in {"ok", "no field"}
        THEN 0
        ELSE IF reconnectTimer.st # "pending" /\ s.reconnectTimer.st = "pending"
             THEN reconnectRun + 1
             ELSE reconnectRun

\* A handled frame is recorded with its description, the callback of the
\* cursor throttle under its own name, every other handler under one name.
Op(name) ==
    [name |-> name, frame |-> Describe(NotJson), wrote |-> FALSE, released |-> FALSE]
OtherOp == Op("other")

Run(op, s) == Commit(s) /\ Observe(op, s) /\ UNCHANGED <<room, timed>>

\* The component mounts: useState and useRef initial values, then the
\* useEffect calls initializeWebSocket().
Mounted0 ==
    [code |-> InitialCode, connected |-> FALSE, userCount |-> InitialUserCount,
     isReconnecting |-> FALSE, aiLoading |-> FALSE,
     editorRef |-> FALSE, wsService |-> NoRef,
     remoteUsers |-> [u \in {} |-> Undefined],
     isRemoteChange |-> FALSE, reconnectTimeout |-> InitialReconnectTimeout,
     reconnectTimer |-> NoReconnectTimer, cursorUpdateThrottle |-> NoThrottle,
     aiRequestController |-> NoRef, aiDebounceTimer |-> NoDebounce,
     mounted |-> TRUE, editorValue |-> InitialCode,
     editorPosition |-> HomePosition,
     editorDecorations |-> [h \in {} |-> Undefined],
     services |-> <<>>, sockets |-> <<>>, requests |-> <<>>, wire |-> <<>>]

\* ------------------------------------------------------------------- room
\* Two instances of the component in one room.  The relay is the server as
\* the protocol describes it: it answers a new connection with an init
\* carrying the room's code, and it stores the code of every code_update and
\* passes the envelope on to every other participant.  Each direction of
\* each connection delivers in order.
RoomClients == {"c1", "c2"}

CodeUpdate(text) == Envelope("code_update", TRUE, text, Undefined, Undefined, Undefined)

Room0 ==
    [clients |-> [c \in RoomClients |-> InitializeWebSocket(Mounted0)],
     members |-> {},
     code |-> InitialCode,
     up |-> [c \in RoomClients |-> <<>>],
     down |-> [c \in RoomClients |-> <<>>],
     edits |-> 0]

\* The code_update envelopes a handler has transmitted, in order.
RECURSIVE SentCode(_)
SentCode(q) ==
    IF q = <<>>
    THEN <<>>
    ELSE IF Head(q).message.type = "code_update"
         THEN <<CodeUpdate(Head(q).message.code)>> \o SentCode(Tail(q))
         ELSE SentCode(Tail(q))

\* The state of a client between two handlers: nothing is being transmitted.
Settled(s) == [s EXCEPT !.wire = <<>>]

\* A step of the room.
RoomRun(r) == room' = r /\ UNCHANGED <<singleVars, timed>>

\* The relay accepts the connection of a client and sends it the init.
RoomAccept(c) ==
    LET s == room.clients[c]
        w == s.services[s.wsService].ws
    IN  /\ c \notin room.members
        /\ RoomRun([room EXCEPT
               !.clients[c] = SocketOnOpen([s EXCEPT !.sockets[w].readyState = "OPEN"], w),
               !.members = @ \cup {c},
               !.down[c] = Append(@, Envelope("init", TRUE, room.code, Undefined,
                                              Undefined, Undefined))])

\* The editor of a client finishes loading.
RoomEditorDidMount(c) ==
    /\ ~room.clients[c].editorRef
    /\ RoomRun([room EXCEPT !.clients[c] = HandleEditorDidMount(@)])

\* The user of a client types.
RoomType(c, text, position) ==
    LET s == room.clients[c]
        s1 == UserTypes(s, text, position)
    IN  /\ s.editorRef /\ s.connected
        /\ text # s.editorValue
        /\ room.edits < MaxRoomEdits
        /\ RoomRun([room EXCEPT !.clients[c] = Settled(s1),
                                !.up[c] = @ \o SentCode(s1.wire),
                                !.edits = @ + 1])

\* The relay takes the next envelope of a client.
RoomRelay(c) ==
    /\ room.up[c] # <<>>
    /\ LET m == Head(room.up[c])
       IN  RoomRun([room EXCEPT
               !.up[c] = Tail(@),
               !.code = m.code,
               !.down = [d \in RoomClients |->
                            IF d \in room.members \ {c} THEN Append(@[d], m) ELSE @[d]]])

\* A client handles the next envelope sent to it.
RoomDeliver(c) ==
    /\ room.down[c] # <<>>
    /\ LET s1 == OnMessageHandler(room.clients[c], Head(room.down[c]), "throws")
       IN  RoomRun([room EXCEPT !.clients[c] = Settled(s1),
                                !.up[c] = @ \o SentCode(s1.wire),
                                !.down[c] = Tail(@)])

\* ------------------------------------------------------------------ clock
\* One session against a clock.  The session has connected, handled its init
\* and mounted its editor.  A timer armed at time t with delay d is due at
\* t + d and its callback runs at that time: the clock does not pass a due
\* timer.  Handlers take no time.
JoinedClient ==
    LET s0 == InitializeWebSocket(Mounted0)
        w == s0.services[s0.wsService].ws
        s1 == SocketOnOpen([s0 EXCEPT !.sockets[w].readyState = "OPEN"], w)
        s2 == OnMessageHandler(s1, Envelope("init", TRUE, InitialCode, Undefined,
                                            Undefined, Undefined), "throws")
    IN  HandleEditorDidMount(s2)

Never == 0 - 1

Timed0 ==
    [client |-> JoinedClient,
     now |-> 0,
     last |-> "none",
     \* the cursor throttle: when it is due, the timers running, the local
     \* moves since it was armed (one, or two for two or more), the latest
     \* of them, what the last step sent and when the last cursor_update
     \* and the one before it were sent
     throttleDue |-> Never, throttleTimers |-> 0,
     moves |-> 0, lastMove |-> HomePosition,
     sent |-> <<>>, cursorSentAt |-> Never, cursorSentBefore |-> Never,
     \* the debounce: when it is due, the edits typed, the last edit, the requests the last
     \* step started and when the last request and the one before it were
     \* started
     debounceDue |-> Never, edits |-> 0,
     lastEdit |-> [code |-> InitialCode, position |-> HomePosition, at |-> Never],
     started |-> <<>>, requestAt |-> Never, requestBefore |-> Never]

\* A timer that an earlier handler armed is marked while a handler runs, so
\* that a timer the handler arms itself is told apart from it.
MarkTimer(timer) == IF timer.st = "pending" THEN [timer EXCEPT !.st = "running"] ELSE timer
UnmarkTimer(timer) == IF timer.st = "running" THEN [timer EXCEPT !.st = "pending"] ELSE timer

Marked(s) ==
    [s EXCEPT !.cursorUpdateThrottle = MarkTimer(@), !.aiDebounceTimer = MarkTimer(@)]

Unmarked(s) ==
    [s EXCEPT !.cursorUpdateThrottle = UnmarkTimer(@), !.aiDebounceTimer = UnmarkTimer(@)]

\* The cursor positions of the cursor_update envelopes a handler transmitted.
RECURSIVE SentCursor(_)
SentCursor(q) ==
    IF q = <<>>
    THEN <<>>
    ELSE IF Head(q).message.type = "cursor_update"
         THEN <<Head(q).message.position>> \o SentCursor(Tail(q))
         ELSE SentCursor(Tail(q))

\* The requests a handler started.
Started(before, after) ==
    [i \in 1..(Len(after.requests) - Len(before.requests)) |->
        after.requests[Len(before.requests) + i]]

\* The clock's record after a handler took the marked session c to s1:
\* the timers it armed are due one delay from now, the timer that fired (if
\* one did) is no longer running.
TimedAfter(name, c, s1, fired) ==
    LET throttleArmed == s1.cursorUpdateThrottle.st = "pending"
        debounceArmed == s1.aiDebounceTimer.st = "pending"
        sentNow == SentCursor(s1.wire)
        startedNow == Started(c, s1)
    IN  [timed EXCEPT
            !.client = Settled(Unmarked(s1)),
            !.last = name,
            !.throttleDue = IF throttleArmed THEN timed.now + CursorThrottleMs
                            ELSE IF s1.cursorUpdateThrottle.st = "running" THEN @
                            ELSE Never,
            !.throttleTimers = @ + (IF throttleArmed THEN 1 ELSE 0)
                                 - (IF fired = "throttle" THEN 1 ELSE 0),
            !.sent = sentNow,
            !.cursorSentAt = IF sentNow # <<>> THEN timed.now ELSE @,
            !.cursorSentBefore = IF sentNow # <<>> THEN timed.cursorSentAt ELSE @,
            !.debounceDue = IF debounceArmed THEN timed.now + AiDebounceMs
                            ELSE IF s1.aiDebounceTimer.st = "running" THEN @
                            ELSE Never,
            !.started = startedNow,
            !.requestAt = IF startedNow # <<>> THEN timed.now ELSE @,
            !.requestBefore = IF startedNow # <<>> THEN timed.requestAt ELSE @]

TimedRun(r) == timed' = r /\ UNCHANGED <<singleVars, room>>

\* Time passes, unless a timer is due.
TimedTick(step, maxTicks) ==
    /\ timed.now < step * maxTicks
    /\ timed.throttleDue = Never \/ timed.throttleDue > timed.now
    /\ timed.debounceDue = Never \/ timed.debounceDue > timed.now
    /\ TimedRun([timed EXCEPT !.now = @ + step, !.last = "Tick",
                              !.sent = <<>>, !.started = <<>>])

\* The user moves the cursor.
TimedCursorMove(position) ==
    LET c == Marked(timed.client)
        s1 == CursorListener([c EXCEPT !.editorPosition = position])
        r == TimedAfter("CursorMove", c, s1, "none")
    IN  /\ position # c.editorPosition
        /\ TimedRun([r EXCEPT !.moves = IF s1.cursorUpdateThrottle.st = "pending"
                                        THEN 1 ELSE Min(@ + 1, 2),
                              !.lastMove = position])

\* The cursor throttle timer fires.
TimedThrottleFire ==
    LET c == Marked(timed.client)
    IN  /\ c.cursorUpdateThrottle.st = "running"
        /\ timed.throttleDue <= timed.now
        /\ TimedRun(TimedAfter("ThrottleFire", c, CursorThrottleCallback(c), "throttle"))

\* The texts the user types against the clock: the editor can be emptied.
TimedTexts == {InitialCode, "a", ""}

\* The user types at the end of the text, where the cursor then is.
EndOf(text) == IF text = "" THEN HomePosition ELSE "2:3"

\* The history of the cursor throttle is not kept while the debounce is
\* followed.
ForgetCursorSends(r) ==
    [r EXCEPT !.moves = 0, !.lastMove = HomePosition,
              !.cursorSentAt = Never, !.cursorSentBefore = Never]

\* The user types: the listeners run, the content listener with the cursor
\* where it was before the keystroke.
TimedEdit(text) ==
    LET c == Marked(timed.client)
        s1 == UserTypes(c, text, EndOf(text))
        r == TimedAfter("Edit", c, s1, "none")
    IN  /\ c.editorRef /\ c.connected
        /\ timed.edits < MaxTimedEdits
        /\ text # c.editorValue
        /\ TimedRun(ForgetCursorSends(
                [r EXCEPT !.edits = @ + 1,
                          !.lastEdit = [code |-> text, position |-> c.editorPosition,
                                        at |-> timed.now]]))

\* The cursor throttle timer that an edit armed fires.
TimedEditThrottleFire ==
    LET c == Marked(timed.client)
    IN  /\ c.cursorUpdateThrottle.st = "running"
        /\ timed.throttleDue <= timed.now
        /\ TimedRun(ForgetCursorSends(
                TimedAfter("ThrottleFire", c, CursorThrottleCallback(c), "throttle")))

\* The suggestion debounce timer fires.
TimedDebounceFire ==
    LET c == Marked(timed.client)
    IN  /\ c.aiDebounceTimer.st = "running"
        /\ timed.debounceDue <= timed.now
        /\ Len(c.requests) < MaxRequests
        /\ TimedRun(TimedAfter("DebounceFire", c, AiDebounceCallback(c), "debounce"))

\* The user clicks Get AI Suggestions.
TimedRequestAutocomplete ==
    LET c == Marked(timed.client)
    IN  /\ c.connected /\ ~c.aiLoading
        /\ Len(c.requests) < MaxRequests
        /\ TimedRun(TimedAfter("RequestAutocomplete", c, requestAutocomplete(c), "none"))

\* A fetch settles: an aborted one rejects, another brings a good answer.
TimedFetchSettle ==
    \E r \in DOMAIN timed.client.requests :
        LET c == Marked(timed.client)
            outcome == IF c.requests[r].aborted THEN "failed" ELSE "good"
        IN  /\ c.requests[r].status = "pending"
            /\ TimedRun(TimedAfter("FetchSettle", c, FetchSettled(c, r, outcome), "none"))

Init ==
    /\ Commit0(InitializeWebSocket(Mounted0))
    /\ lastOp = OtherOp
    /\ reconnectRun = 0
    /\ room = Room0
    /\ timed = Timed0

\* A connecting socket opens: the onopen handler of connect().
WsOpen(w) ==
    /\ sockets[w].readyState = "CONNECTING"
    /\ Run(OtherOp, SocketOnOpen([Cur EXCEPT !.sockets[w].readyState = "OPEN"], w))

\* The close event of a socket: a refused connection, a dropped one, or the
\* end of a close() the client started.
WsCloseEvent(w) ==
    /\ sockets[w].readyState \in {"CONNECTING", "OPEN", "CLOSING"}
    /\ Run(OtherOp,
           SocketOnClose([Cur EXCEPT !.sockets[w].readyState = "CLOSED"], w))

\* A frame arrives on an open socket that has an onmessage handler.
Receive(w, frame, lib) ==
    /\ sockets[w].readyState = "OPEN"
    /\ sockets[w].onmessage
    /\ Run([Op("Receive") EXCEPT !.frame = Describe(frame)],
           OnMessageHandler(Cur, frame, lib))

\* A service's reconnect timer fires: () => this.connect().
ServiceTimerFire(v, i, limit) ==
    /\ Len(sockets) < limit.sockets
    /\ Run(OtherOp,
           Connect([Cur EXCEPT !.services[v].timers =
                       SubSeq(@, 1, i - 1) \o SubSeq(@, i + 1, Len(@))], v))

\* The session's reconnect timer fires.
ReconnectTimerFire(limit) ==
    /\ reconnectTimer.st = "pending"
    /\ Len(services) < limit.services
    /\ Len(sockets) < limit.sockets
    /\ Run(OtherOp, ReconnectTimerCallback(Cur))

\* The view leaves the room: the component unmounts and the cleanup runs.
Unmount ==
    /\ mounted
    /\ Run(OtherOp, [Cleanup(Cur) EXCEPT !.mounted = FALSE])

\* The editor finishes loading.
EditorDidMount ==
    /\ mounted
    /\ ~editorRef
    /\ Run(OtherOp, HandleEditorDidMount(Cur))

\* The user types: the editor is editable while readOnly is off.
LocalEdit(text, position) ==
    /\ mounted /\ editorRef /\ ~ReadOnly(Cur)
    /\ text # editorValue
    /\ Run(OtherOp, UserTypes(Cur, text, position))

\* The user moves the cursor.
LocalCursorMove(position) ==
    /\ mounted /\ editorRef
    /\ position # editorPosition
    /\ Run(OtherOp, CursorListener([Cur EXCEPT !.editorPosition = position]))

\* The cursor throttle timer fires.
CursorThrottleFire ==
    /\ cursorUpdateThrottle.st = "pending"
    /\ Run(Op("CursorThrottleFire"), CursorThrottleCallback(Cur))

\* The suggestion debounce timer fires.
AiDebounceFire ==
    /\ aiDebounceTimer.st = "pending"
    /\ Len(requests) < MaxRequests
    /\ Run(OtherOp, AiDebounceCallback(Cur))

\* The Get AI Suggestions button, enabled while connected and not loading.
RequestAutocomplete ==
    /\ mounted /\ connected /\ ~aiLoading
    /\ Len(requests) < MaxRequests
    /\ Run(OtherOp, requestAutocomplete(Cur))

FetchOutcomes == {"good", "weak", "failed"}

\* A test that lets the threshold itself pass, to compare with.
ShouldSurfaceAtThreshold(data) ==
    data.suggestions > 0 /\ data.confidence >= ConfidenceThreshold

\* data.suggestions.length > 0 && data.confidence > 0.7
ShouldSurface(data) ==
    data.suggestions > 0 /\ data.confidence > ConfidenceThreshold

\* What the server answers to a request: the fetch rejects, the status is
\* not OK, the body has no suggestions list, or the body carries a number of
\* suggestions and a confidence in hundredths.
Responses ==
    {[status |-> st, suggestions |-> 0, confidence |-> 0] :
        st \in {"rejects", "not ok", "malformed"}}
        \cup {[status |-> "ok", suggestions |-> n, confidence |-> c] :
                 n \in 0..MaxSuggestions,
                 c \in {0, ConfidenceThreshold, ConfidenceThreshold + 1, 100}}

\* The fetch of request r settles with an answer: an aborted fetch rejects
\* with AbortError whatever the server answered, everything but a body with
\* its list throws inside the try, and the body is put to the test.
FetchRespond(r, response) ==
    /\ requests[r].status = "pending"
    /\ LET outcome == IF requests[r].aborted \/ response.status # "ok"
                      THEN "failed"
                      ELSE IF ShouldSurface(response) THEN "good" ELSE "weak"
           op == [name |-> "Settle", frame |-> Describe(NotJson), wrote |-> FALSE,
                  released |-> FALSE, request |-> r, response |-> response]
       IN  Run(op, FetchSettled(Cur, r, outcome))

\* A fetch settles: an aborted one rejects with AbortError.
FetchSettle(r, outcome) ==
    /\ requests[r].status = "pending"
    /\ requests[r].aborted => outcome = "failed"
    /\ Run(OtherOp, FetchSettled(Cur, r, outcome))

\* How many services and sockets a specification lets the program create.
Limit(maxServices, maxSockets) == [services |-> maxServices, sockets |-> maxSockets]

\* The connection as the session drives it: socket events and the session's
\* reconnect timer.
NetStep(limit) ==
    \/ \E w \in DOMAIN sockets : WsOpen(w)
    \/ \E w \in DOMAIN sockets : WsCloseEvent(w)
    \/ ReconnectTimerFire(limit)

\* The reconnect timers of the services.
ServiceStep(limit) ==
    \E v \in DOMAIN services : \E i \in DOMAIN services[v].timers :
        ServiceTimerFire(v, i, limit)

\* The server sends one of the given frames on some socket.
FrameStep(frames) ==
    \E w \in DOMAIN sockets, frame \in frames :
        \E lib \in SetValueOutcomes(frame) : Receive(w, frame, lib)

\* The editor: the user's input and the cursor throttle.
EditorStep ==
    \/ EditorDidMount
    \/ \E text \in Texts, position \in Positions : LocalEdit(text, position)
    \/ \E position \in Positions : LocalCursorMove(position)
    \/ CursorThrottleFire

\* The suggestion pipeline.
SuggestionStep ==
    \/ AiDebounceFire
    \/ RequestAutocomplete
    \/ \E r \in DOMAIN requests, outcome \in FetchOutcomes : FetchSettle(r, outcome)

\* The mounted session with its editor and its user, against a server that
\* sends init and code_update, with or without their fields.
CodeFrames ==
    CodeEnvelopes(Texts)
        \cup {m \in BareEnvelopes : m.type \in {"init", "code_update"}}

Next ==
    \/ NetStep(Limit(MaxServices, MaxServices))
    \/ EditorStep
    \/ FrameStep(CodeFrames)

Spec == Init /\ [][Next]_vars

\* The mounted session against every frame a server can send, while the
\* user only reads.
Frames ==
    CodeEnvelopes(Texts) \cup CursorEnvelopes(UserIds, Positions)
        \cup CountEnvelopes(UserIds, UserCounts) \cup BareEnvelopes
        \cup UnknownEnvelopes({"a"}, {"2"}) \cup {NotJson}

NextDecode ==
    \/ NetStep(Limit(MaxServices, MaxServices))
    \/ EditorDidMount
    \/ FrameStep(Frames)

SpecDecode == Init /\ [][NextDecode]_vars

\* The connection layer against a server that sends init and nothing else.
ConnFrames == {Envelope("init", TRUE, "a", Undefined, Undefined, Undefined)}

NextConn ==
    \/ NetStep(Limit(ConnMaxServices, ConnMaxSockets))
    \/ ServiceStep(Limit(ConnMaxServices, ConnMaxSockets))
    \/ Unmount
    \/ FrameStep(ConnFrames)

SpecConn == Init /\ [][NextConn]_vars

\* The same while the view stays mounted, with room for the backoff to reach
\* its ceiling.
NextBackoff ==
    \/ NetStep(Limit(BackoffMaxServices, BackoffMaxSockets))
    \/ ServiceStep(Limit(BackoffMaxServices, BackoffMaxSockets))
    \/ FrameStep(ConnFrames)

SpecBackoff == Init /\ [][NextBackoff]_vars

\* The mounted session against a server that refuses or drops connections
\* MaxDrops times at most and from then on accepts every connection and
\* sends its init.  A failure opens one service at most; a failure, and the
\* close of the socket that the next service replaces, open two sockets at
\* most each, so the limit stops no timer.  Timers fire, connections open
\* and the init arrives: none of them is put off for ever.
RecoverLimit == Limit(MaxDrops + 1, 4 * MaxDrops + 1)

Failed == {w \in DOMAIN sockets : sockets[w].readyState = "CLOSED"}

RecoverClose(w) ==
    /\ sockets[w].readyState = "CLOSING" \/ Cardinality(Failed) < MaxDrops
    /\ WsCloseEvent(w)

NextRecover ==
    \/ \E w \in DOMAIN sockets : WsOpen(w)
    \/ \E w \in DOMAIN sockets : RecoverClose(w)
    \/ ReconnectTimerFire(RecoverLimit)
    \/ ServiceStep(RecoverLimit)
    \/ EditorDidMount
    \/ FrameStep(ConnFrames)

RecoverFairness ==
    /\ WF_vars(\E w \in DOMAIN sockets : WsOpen(w))
    /\ WF_vars(ReconnectTimerFire(RecoverLimit))
    /\ WF_vars(ServiceStep(RecoverLimit))
    /\ WF_vars(FrameStep(ConnFrames))

SpecRecover == Init /\ [][NextRecover]_vars /\ RecoverFairness

\* The suggestion pipeline of a session that connects once and may be torn
\* down: the user types, clicks the button, requests settle in any order.
NextSuggest ==
    \/ \E w \in DOMAIN sockets : WsOpen(w)
    \/ FrameStep(ConnFrames)
    \/ EditorDidMount
    \/ \E text \in Texts, position \in Positions : LocalEdit(text, position)
    \/ SuggestionStep
    \/ Unmount

SpecSuggest == Init /\ [][NextSuggest]_vars

\* The same with the caret at the end of what the user typed.
NextPipeline ==
    \/ \E w \in DOMAIN sockets : WsOpen(w)
    \/ FrameStep(ConnFrames)
    \/ EditorDidMount
    \/ \E text \in Texts : LocalEdit(text, EndOf(text))
    \/ SuggestionStep
    \/ Unmount

SpecPipeline == Init /\ [][NextPipeline]_vars

\* The pipeline of a session that stays mounted and whose user types one
\* text, against a server whose answers are given.
NextResponse ==
    \/ \E w \in DOMAIN sockets : WsOpen(w)
    \/ FrameStep(ConnFrames)
    \/ EditorDidMount
    \/ LocalEdit("b", EndOf("b"))
    \/ AiDebounceFire
    \/ RequestAutocomplete
    \/ \E r \in DOMAIN requests, response \in Responses : FetchRespond(r, response)

SpecResponse == Init /\ [][NextResponse]_vars

\* A session that connects once, with its editor, against a server that
\* sends well-formed frames of every type, while the user moves the cursor.
RemoteFrames == {m \in Frames : WellFormed(m)}

NextRemote ==
    \/ \E w \in DOMAIN sockets : WsOpen(w)
    \/ EditorDidMount
    \/ \E position \in Positions : LocalCursorMove(position)
    \/ CursorThrottleFire
    \/ FrameStep(RemoteFrames)

SpecRemote == Init /\ [][NextRemote]_vars

\* The cursor throttle against the clock: the user moves the cursor at any
\* time.
ThrottleTickMs == CursorThrottleMs \div 2

NextThrottle ==
    \/ TimedTick(ThrottleTickMs, MaxThrottleTicks)
    \/ \E position \in Positions : TimedCursorMove(position)
    \/ TimedThrottleFire

SpecThrottle == Init /\ [][NextThrottle]_vars

\* The suggestion debounce against the clock: the user types and clicks at
\* any time, requests settle at any time.
DebounceTickMs == AiDebounceMs \div 5

NextDebounce ==
    \/ TimedTick(DebounceTickMs, MaxDebounceTicks)
    \/ \E text \in TimedTexts : TimedEdit(text)
    \/ TimedEditThrottleFire
    \/ TimedDebounceFire
    \/ TimedRequestAutocomplete
    \/ TimedFetchSettle

SpecDebounce == Init /\ [][NextDebounce]_vars

\* The room: every step is a step of one client or of the relay; the single
\* session above stands still.
NextRoom ==
    \/ \E c \in RoomClients : RoomAccept(c)
    \/ \E c \in RoomClients : RoomEditorDidMount(c)
    \/ \E c \in RoomClients, text \in Texts, position \in Positions :
           RoomType(c, text, position)
    \/ \E c \in RoomClients : RoomRelay(c)
    \/ \E c \in RoomClients : RoomDeliver(c)

SpecRoom == Init /\ [][NextRoom]_vars

\* ------------------------------------------------------------- properties
Live(w) == sockets[w].readyState \in {"CONNECTING", "OPEN"}

ServiceTimers == [v \in DOMAIN services |-> services[v].timers]

\* C1: after the cleanup of the useEffect has run, no step opens a new
\* WebSocket and no step arms a reconnect timer, of the session or of a
\* service.
C1_NoReconnectAfterTeardown ==
    [][~mounted =>
          /\ Len(sockets') = Len(sockets)
          /\ reconnectTimer'.st = "pending" => reconnectTimer.st = "pending"
          /\ \A v \in DOMAIN services :
                 Len(services'[v].timers) <= Len(services[v].timers)]_vars

\* C2: at most one socket of the session is connecting or open, counting the
\* sockets of every service it ever constructed.
C2_AtMostOneLiveSocket ==
    Cardinality({w \in DOMAIN sockets : Live(w)}) <= 1

\* C3: the close event of a socket that the client closed itself does not
\* run the close callback and arms no reconnect timer, of the session or of
\* a service.
C3_LocalCloseArmsNothing ==
    [][\A w \in DOMAIN sockets :
          sockets[w].readyState = "CLOSING" /\ sockets'[w].readyState = "CLOSED" =>
              /\ sockets[w].onclose # "callback"
              /\ reconnectTimer' = reconnectTimer
              /\ ServiceTimers' = ServiceTimers]_vars

\* The delay of the k-th reconnect in a row.
BackoffDelay(k) == Min(InitialReconnectTimeout * 2 ^ (k - 1), MaxReconnectTimeout)

\* C4: the k-th reconnect the session schedules since it was last connected
\* (or since it mounted) is armed with min(1000 * 2^(k-1), 30000) ms; between
\* two schedules the backoff to use next is the (k+1)-th of that sequence.
C4_BackoffSequence ==
    /\ reconnectTimer.st = "pending" =>
          /\ reconnectRun >= 1
          /\ reconnectTimer.delay = BackoffDelay(reconnectRun)
          /\ reconnectTimeout = reconnectTimer.delay
    /\ reconnectTimer.st = "null" => reconnectTimeout = BackoffDelay(reconnectRun + 1)
    /\ reconnectTimer.delay <= MaxReconnectTimeout

\* The sixth and later reconnects in a row wait at the ceiling.
C4_Witness ==
    /\ reconnectTimer.st = "pending"
    /\ reconnectRun >= 6
    /\ reconnectTimer.delay = MaxReconnectTimeout

\* C5: handling an init leaves the backoff at 1000 ms; it stays there while
\* the session is connected, and the first reconnect scheduled after the
\* next drop is armed with 1000 ms.
C5_ResetOnConnected ==
    /\ lastOp.name = "Receive" /\ lastOp.frame.type = "init" /\ lastOp.frame.shape = "ok"
          => reconnectTimeout = InitialReconnectTimeout /\ connected
    /\ connected =>
          reconnectTimeout = InitialReconnectTimeout /\ reconnectTimer.st = "null"
    /\ reconnectTimer.st = "pending" /\ reconnectRun = 1 =>
          reconnectTimer.delay = InitialReconnectTimeout

\* A first reconnect after a recovery that itself took two reconnects.
C5_Witness ==
    /\ Len(services) >= 3
    /\ reconnectRun = 1
    /\ reconnectTimer.st = "pending"
    /\ reconnectTimer.delay = InitialReconnectTimeout

\* The session's own state: everything but the record of the last handler.
sessionVars == <<reactVars, refVars, mounted, editorVars, netVars, requests>>

ReceivedCode ==
    /\ lastOp.name = "Receive"
    /\ lastOp.frame.type \in {"init", "code_update"}

\* C7: a step that handles an init or a code_update transmits nothing, arms
\* or re-arms no cursor throttle and no suggestion debounce, aborts and
\* starts no suggestion request, whatever the frame does to the editor.
C7_RemoteWriteNotEchoed ==
    [][ReceivedCode' =>
          /\ wire' = <<>>
          /\ cursorUpdateThrottle' = cursorUpdateThrottle
          /\ aiDebounceTimer' = aiDebounceTimer
          /\ requests' = requests]_vars

\* A code_update has just replaced the text of the mounted editor on an open
\* connection, after the user had typed and moved the cursor.
C7_Witness ==
    /\ ReceivedCode /\ lastOp.frame.type = "code_update" /\ lastOp.wrote
    /\ editorValue = lastOp.frame.code
    /\ wsService # NoRef /\ services[wsService].ws # NoRef
    /\ sockets[services[wsService].ws].readyState = "OPEN"
    /\ aiDebounceTimer.st = "pending"
    /\ wire = <<>>

ReceivedInit ==
    /\ lastOp.name = "Receive"
    /\ lastOp.frame.type = "init"

\* C8: a step that handles an init carrying code c ends with code = c, with
\* the text of the editor (once it is mounted) equal to c, connected and not
\* reconnecting; and connected turns true only in a step that handles an
\* init.
C8_InitAdoptsServerCopy ==
    [][(ReceivedInit' /\ lastOp'.frame.shape = "ok" =>
           /\ code' = lastOp'.frame.code
           /\ (editorRef' => editorValue' = lastOp'.frame.code)
           /\ connected'
           /\ ~isReconnecting')
       /\ (~connected /\ connected' => ReceivedInit')]_vars

\* After a reconnect, an init has replaced what the user had typed into the
\* editor.
C8_Witness ==
    /\ ReceivedInit /\ lastOp.frame.shape = "ok" /\ lastOp.wrote
    /\ Len(services) >= 2
    /\ connected /\ ~isReconnecting
    /\ editorRef /\ editorValue = lastOp.frame.code /\ code = editorValue

\* C9: a step that handles a frame of a known type without its data, or
\* without a field its case needs, leaves the code, the connection state,
\* the user count, the remote users, the remote-change flag and the sockets
\* as they were.
C9_MalformedDropped ==
    [][lastOp'.name = "Receive" /\ lastOp'.frame.shape \in {"no data", "no field"} =>
          /\ UNCHANGED <<code, connected, userCount, remoteUsers, isRemoteChange>>
          /\ sockets' = sockets]_vars

\* C10: a step that handles a frame of an unrecognized type changes nothing
\* of the session: React state, refs, timers, editor, services and sockets.
C10_UnknownTypeIgnored ==
    [][lastOp'.name = "Receive" /\ lastOp'.frame.shape = "unknown" =>
          UNCHANGED sessionVars]_vars

\* A frame of an unrecognized type has been handled by a connected session
\* with its editor mounted and a remote cursor painted.
C10_Witness ==
    /\ lastOp.name = "Receive" /\ lastOp.frame.shape = "unknown"
    /\ connected /\ editorRef
    /\ DOMAIN remoteUsers # {}
    /\ \E w \in DOMAIN sockets : sockets[w].readyState = "OPEN"

\* Every client has joined and mounted its editor, and nothing is in transit.
RoomQuiescent ==
    /\ room.members = RoomClients
    /\ \A c \in RoomClients :
           /\ room.up[c] = <<>> /\ room.down[c] = <<>>
           /\ room.clients[c].connected /\ room.clients[c].editorRef

\* C6: once every envelope in transit has been delivered and applied, all
\* clients of the room show the same text.
C6_RoomConverges ==
    RoomQuiescent =>
        \A c, d \in RoomClients :
            /\ room.clients[c].editorValue = room.clients[d].editorValue
            /\ room.clients[c].code = room.clients[d].code

\* The socket the session's service holds, if it is open.
HeldOpen ==
    /\ wsService # NoRef
    /\ services[wsService].ws # NoRef
    /\ sockets[services[wsService].ws].readyState = "OPEN"

\* C11: send transmits exactly when the service holds an open socket.  The
\* callback of the cursor throttle calls send in every connection state: the
\* step transmits its one envelope on the held socket if that socket is open
\* and transmits nothing otherwise; and whatever any step transmits goes out
\* on the socket its service holds, open at that time, so nothing that was
\* dropped is transmitted later.
C11_SendIffOpen ==
    [][/\ lastOp'.name = "CursorThrottleFire" =>
              wire' = IF HeldOpen
                      THEN <<[sock |-> services[wsService].ws,
                              message |-> [type |-> "cursor_update", code |-> Undefined,
                                           position |-> cursorUpdateThrottle.position]]>>
                      ELSE <<>>
       /\ \A i \in DOMAIN wire' :
              HeldOpen /\ wire'[i].sock = services[wsService].ws]_vars

\* The throttle has fired while the held socket was closed, and the update
\* was dropped.
C11_Witness ==
    /\ lastOp.name = "CursorThrottleFire"
    /\ wire = <<>>
    /\ \E w \in DOMAIN sockets : sockets[w].readyState = "CLOSED"
    /\ ~HeldOpen

\* C12: a step transmits an envelope only while the session is connected.
C12_NoSendUnlessConnected == wire # <<>> => connected

\* A step in which the user changed the text of the mounted editor.
LocalChange ==
    /\ editorRef
    /\ editorValue' # editorValue
    /\ lastOp'.name # "Receive"

\* C19: a step in which the user changes the text stores the new text in
\* the code state, transmits exactly one code_update carrying the whole new
\* text, and hands the new text to the suggestion debounce.
C19_LocalChangeForwardedOnce ==
    [][LocalChange =>
          /\ code' = editorValue'
          /\ wire' = <<[sock |-> services[wsService].ws,
                        message |-> [type |-> "code_update", code |-> editorValue',
                                     position |-> Undefined]]>>
          /\ editorValue' # "" =>
                 /\ aiDebounceTimer'.st = "pending"
                 /\ aiDebounceTimer'.code = editorValue']_vars

\* C20: once a code_update carrying text c has been handled, the code state
\* is c and the text of the editor, if it is mounted, is c, whatever they
\* were before; so after any sequence of them the text is that of the last.
C20_LastCodeUpdateWins ==
    lastOp.name = "Receive" /\ lastOp.frame.type = "code_update"
            /\ lastOp.frame.shape = "ok" =>
        /\ code = lastOp.frame.code
        /\ editorRef => editorValue = lastOp.frame.code

\* A code_update has replaced a text the user had typed.
C20_Witness ==
    /\ lastOp.name = "Receive" /\ lastOp.frame.type = "code_update"
    /\ lastOp.frame.shape = "ok" /\ lastOp.wrote
    /\ editorRef /\ editorValue = lastOp.frame.code /\ code = editorValue
    /\ aiDebounceTimer.st = "pending" /\ aiDebounceTimer.code # editorValue

\* The suggestion requests that are running: started, not settled, not aborted.
InFlight == {r \in DOMAIN requests : requests[r].status = "pending" /\ ~requests[r].aborted}

\* C15: at most one suggestion request is in flight.
C15_OneRequestInFlight == Cardinality(InFlight) <= 1

\* C18: once the cleanup has run, no suggestion request is left running
\* unaborted, and neither the cursor throttle nor the suggestion debounce is
\* pending.
C18_TeardownCancelsAll ==
    ~mounted =>
        /\ InFlight = {}
        /\ cursorUpdateThrottle.st # "pending"
        /\ aiDebounceTimer.st # "pending"

\* C13: when the throttle fires after two or more local cursor moves since
\* it was armed, exactly one cursor_update goes out and it carries the
\* position of the latest of those moves.
C13_ThrottleSendsLatest ==
    timed.last = "ThrottleFire" /\ timed.moves >= 2 => timed.sent = <<timed.lastMove>>

\* C14: a cursor_update is sent no sooner than 100 ms after the one before,
\* and at most one throttle timer is running.
C14_ThrottleSpacing ==
    /\ timed.throttleTimers <= 1
    /\ timed.cursorSentBefore # Never =>
           timed.cursorSentAt - timed.cursorSentBefore >= CursorThrottleMs

\* A second cursor_update has just gone out, 100 ms after the first; the user
\* had moved the cursor again while the timer was running.
C14_Witness ==
    /\ timed.last = "ThrottleFire" /\ timed.sent # <<>>
    /\ timed.cursorSentBefore # Never
    /\ timed.cursorSentAt - timed.cursorSentBefore = CursorThrottleMs
    /\ timed.moves >= 2

\* C16: when the debounce timer fires it starts exactly one request, 500 ms
\* after the last edit, with the text of that edit and the cursor position
\* its listener read.
C16_DebounceFollowsLastEdit ==
    timed.last = "DebounceFire" =>
        /\ Len(timed.started) = 1
        /\ timed.now = timed.lastEdit.at + AiDebounceMs
        /\ timed.started[1].code = timed.lastEdit.code
        /\ timed.started[1].position = timed.lastEdit.position

\* C17: a suggestion request starts no sooner than the minimum interval
\* after the one before.
C17_RequestsRateLimited ==
    timed.requestBefore # Never =>
        timed.requestAt - timed.requestBefore >= MinRequestIntervalMs

\* A code_update carrying the text the mounted editor already shows.
SameCodeUpdate ==
    /\ lastOp'.name = "Receive" /\ lastOp'.frame.type = "code_update"
    /\ lastOp'.frame.shape = "ok"
    /\ editorRef /\ lastOp'.frame.code = editorValue

\* C21: a step that handles a code_update carrying the text the editor
\* already shows leaves the editor alone (its text, its cursor, which setValue
\* would send home, and its decorations), leaves the remote users, the timers
\* and the requests as they were, and transmits nothing.
C21_SameCodeUpdateNoOp ==
    [][SameCodeUpdate =>
          /\ UNCHANGED <<editorVars, remoteUsers, cursorUpdateThrottle, aiDebounceTimer,
                         requests, netVars>>
          /\ code' = editorValue
          /\ wire' = <<>>]_vars

\* Such a code_update has been handled while a remote cursor was painted and
\* the local cursor was away from the start of the text.
C21_Witness ==
    /\ lastOp.name = "Receive" /\ lastOp.frame.type = "code_update"
    /\ lastOp.frame.shape = "ok" /\ ~lastOp.wrote
    /\ editorRef /\ editorValue = lastOp.frame.code /\ editorValue # InitialCode
    /\ editorPosition # HomePosition
    /\ DOMAIN editorDecorations # {}

\* The decorations painted for a user.
OwnedBy(decos, u) == {h \in DOMAIN decos : decos[h].owner = u}

\* C22: a step that handles a user_left for a user leaves no entry for that
\* user and no decoration painted for it, and leaves the entries and the
\* decorations of every other user as they were; if the user had no entry,
\* the remote users and the decorations are unchanged.
C22_UserLeftReleases ==
    [][lastOp'.name = "Receive" /\ lastOp'.frame.type = "user_left"
           /\ lastOp'.frame.shape = "ok" =>
          LET u == lastOp'.frame.user_id
          IN  /\ u \notin DOMAIN remoteUsers'
              /\ OwnedBy(editorDecorations', u) = {}
              /\ DOMAIN remoteUsers' = (DOMAIN remoteUsers) \ {u}
              /\ \A v \in DOMAIN remoteUsers' : remoteUsers'[v] = remoteUsers[v]
              /\ DOMAIN editorDecorations' =
                     (DOMAIN editorDecorations) \ OwnedBy(editorDecorations, u)
              /\ \A h \in DOMAIN editorDecorations' :
                     editorDecorations'[h] = editorDecorations[h]
              /\ u \notin DOMAIN remoteUsers =>
                     UNCHANGED <<remoteUsers, editorDecorations>>]_vars

\* A user_left has released the decoration of a user, while the cursor of
\* the other user stays painted, on the second connection of the session.
C22_Witness ==
    /\ lastOp.name = "Receive" /\ lastOp.frame.type = "user_left"
    /\ lastOp.frame.shape = "ok" /\ lastOp.frame.user_id = "u1"
    /\ lastOp.released
    /\ DOMAIN remoteUsers = {"u2"}
    /\ Cardinality(OwnedBy(editorDecorations, "u2")) = 1
    /\ OwnedBy(editorDecorations, "u1") = {}
    /\ Len(services) >= 2

\* C23: once a well-formed cursor_update of a user has been handled, the user
\* has an entry at the reported position and exactly one decoration, painted
\* at that position; and every user with an entry has exactly one decoration,
\* at the position of the entry.
C23_OneDecorationPerUser ==
    /\ lastOp.name = "Receive" /\ lastOp.frame.type = "cursor_update"
            /\ lastOp.frame.shape = "ok" =>
          /\ lastOp.frame.user_id \in DOMAIN remoteUsers
          /\ remoteUsers[lastOp.frame.user_id].position = lastOp.frame.position
    /\ \A u \in DOMAIN remoteUsers :
          /\ OwnedBy(editorDecorations, u) = remoteUsers[u].decorations
          /\ Cardinality(remoteUsers[u].decorations) = 1
          /\ \A h \in remoteUsers[u].decorations :
                 editorDecorations[h].position = remoteUsers[u].position
    /\ \A h \in DOMAIN editorDecorations :
          editorDecorations[h].owner \in DOMAIN remoteUsers

\* The palette entry of each user: the sum of the code units of the
\* identifier modulo ten ("u1" is 117 + 49, "u2" is 117 + 50).
PaletteColor(u) ==
    CASE u = "u1" -> "#BC6C25"
      [] u = "u2" -> "#F4A261"

\* C30: every entry of a user shows the palette color of its identifier, in
\* every state: when the entry is created, while it is updated, when the
\* user has left and reported again, and on every connection.
C30_ColorOfIdentifier ==
    \A u \in DOMAIN remoteUsers : remoteUsers[u].color = PaletteColor(u)

\* Both users have an entry with their own palette color, after a
\* cursor_update on the second connection of the session.
C30_Witness ==
    /\ lastOp.name = "Receive" /\ lastOp.frame.type = "cursor_update"
    /\ lastOp.frame.shape = "ok" /\ lastOp.frame.user_id = "u1"
    /\ DOMAIN remoteUsers = {"u1", "u2"}
    /\ remoteUsers["u1"].color = "#BC6C25" /\ remoteUsers["u2"].color = "#F4A261"
    /\ Len(services) >= 2

\* C24: the editor is read-only exactly while the connected flag is off: it
\* is read-only whenever the session holds no open socket, is reconnecting
\* or has a reconnect scheduled, and the user changes the text only while
\* the session is connected.
C24_EditableIffConnected ==
    [][/\ ReadOnly(Cur) <=> ~connected
       /\ ~HeldOpen \/ isReconnecting \/ reconnectTimer.st = "pending" => ReadOnly(Cur)
       /\ LocalChange => connected /\ HeldOpen]_vars

\* The connection was lost after the user had typed: the editor shows the
\* typed text and is read-only while the session reconnects.
C24_Witness ==
    /\ editorRef /\ editorValue = "a" /\ code = "a"
    /\ aiDebounceTimer.st = "pending" /\ aiDebounceTimer.code = "a"
    /\ ReadOnly(Cur) /\ isReconnecting
    /\ reconnectTimer.st = "pending"

\* The socket that initializeWebSocket opened for the service the session
\* uses is connecting or open.
SessionSocketLive ==
    \E w \in DOMAIN sockets :
        sockets[w].svc = wsService /\ sockets[w].onclose = "callback" /\ Live(w)

\* C25: whenever the socket of the mounted session has failed, a reconnect of
\* the session is scheduled, however many have failed in a row before.
C25_AlwaysReschedules ==
    mounted /\ ~SessionSocketLive => reconnectTimer.st = "pending"

\* More reconnects in a row than a service allows itself: the attempt after
\* maxReconnectAttempts failures has failed too and the next is scheduled.
C25_Witness ==
    /\ mounted /\ ~SessionSocketLive
    /\ reconnectRun > maxReconnectAttempts
    /\ Len(services) > maxReconnectAttempts
    /\ reconnectTimer.st = "pending"

\* C26: whenever the mounted session is not connected, it is connected
\* later: after every refused or dropped connection it connects again.
C26_EventuallyConnected == ~connected ~> connected

\* The session is connected on a service that initializeWebSocket created
\* after MaxDrops connections had failed.
C26_Witness ==
    /\ connected /\ HeldOpen
    /\ Len(services) = MaxDrops + 1
    /\ Cardinality(Failed) >= MaxDrops

\* C27: every open socket that a service holds has the handler registered
\* through onMessage, so that an envelope arriving on it is handed to the
\* handler; this includes the sockets a service opened in its own reconnect.
C27_HeldSocketsDeliver ==
    \A v \in DOMAIN services :
        services[v].ws # NoRef /\ sockets[services[v].ws].readyState = "OPEN" =>
            sockets[services[v].ws].onmessage

\* C28: the response of a request that was aborted is never shown.
C28_AbortedNeverSurfaced ==
    \A r \in DOMAIN requests : requests[r].aborted => requests[r].result # "surfaced"

\* A request that a newer edit aborted has settled without being shown, and
\* a later request has been shown.
C28_Witness ==
    \E r, q \in DOMAIN requests :
        /\ r < q
        /\ requests[r].aborted /\ requests[r].status = "settled"
        /\ requests[r].result = "silent"
        /\ requests[q].result = "surfaced"
        /\ mounted

\* A step in which a suggestion request settles.
Settles ==
    \E r \in DOMAIN requests :
        requests[r].status = "pending" /\ requests'[r].status = "settled"

\* C29: a step in which a suggestion request settles, however it ends,
\* changes nothing but the request, the loading flag and the stored
\* controller: the code, the editor, the connection state, the user count,
\* the remote users, the sockets and the timers are as they were, and
\* nothing is transmitted.
C29_SettleLeavesSession ==
    [][Settles =>
          /\ UNCHANGED <<code, connected, userCount, isReconnecting, editorRef, wsService,
                         remoteUsers, isRemoteChange, reconnectTimeout, reconnectTimer,
                         cursorUpdateThrottle, aiDebounceTimer, mounted, editorVars,
                         netVars>>
          /\ Len(requests') = Len(requests)
          /\ wire' = <<>>]_vars

\* A request that was not aborted has failed, in a connected session whose
\* editor shows what the user typed, with the debounce of that text pending.
C29_Witness ==
    /\ \E r \in DOMAIN requests :
           /\ requests[r].status = "settled" /\ ~requests[r].aborted
           /\ requests[r].result = "silent"
    /\ mounted /\ connected /\ editorRef /\ ~aiLoading
    /\ code = editorValue /\ editorValue = "b"
    /\ aiDebounceTimer.st = "pending" /\ aiDebounceTimer.code = "b"

\* C31: between the steps of the program the remote-change flag is down:
\* whatever frame was handled, and however its handling ended, the flag is
\* false once the handler has returned.
C31_FlagClearedOnEveryExit == ~isRemoteChange

\* C32: the answer to a request that was not aborted, when it is a body with
\* its list, is shown exactly when it carries at least one suggestion and a
\* confidence above 0.7; any other is dropped silently.
C32_SurfacedIffWorthIt ==
    lastOp.name = "Settle" /\ lastOp.response.status = "ok"
          /\ ~requests[lastOp.request].aborted =>
        /\ requests[lastOp.request].status = "settled"
        /\ requests[lastOp.request].result = "surfaced" <=>
               /\ lastOp.response.suggestions >= 1
               /\ lastOp.response.confidence > ConfidenceThreshold
        /\ requests[lastOp.request].result \in {"surfaced", "silent"}

\* A body with a suggestion and a confidence of exactly 0.7 has been
\* dropped, after one with a confidence above it was shown.
C32_Witness ==
    /\ lastOp.name = "Settle" /\ lastOp.response.status = "ok"
    /\ lastOp.response.suggestions >= 1
    /\ lastOp.response.confidence = ConfidenceThreshold
    /\ ~requests[lastOp.request].aborted
    /\ requests[lastOp.request].result = "silent"
    /\ \E q \in DOMAIN requests : requests[q].result = "surfaced"

\* C33: the attempt counter of every service lies in 0..5; a step in which
\* the service schedules a reconnect adds one to it and arms one timer of
\* 2000 ms; a step in which one of its sockets opens sets it to 0; nothing
\* else changes it; and at 5 no reconnect is scheduled.
C33_ServiceCounter ==
    [][\A v \in DOMAIN services :
          LET before == services[v]
              after == services'[v]
              opens == \E w \in DOMAIN sockets :
                           /\ sockets[w].svc = v
                           /\ sockets[w].readyState = "CONNECTING"
                           /\ sockets'[w].readyState = "OPEN"
              schedules == Len(after.timers) > Len(before.timers)
          IN  /\ before.reconnectAttempts \in 0..maxReconnectAttempts
              /\ after.reconnectAttempts \in 0..maxReconnectAttempts
              /\ schedules =>
                     /\ before.reconnectAttempts < maxReconnectAttempts
                     /\ after.reconnectAttempts = before.reconnectAttempts + 1
                     /\ after.timers = Append(before.timers, reconnectDelay)
              /\ opens => after.reconnectAttempts = 0
              /\ ~schedules /\ ~opens =>
                     after.reconnectAttempts = before.reconnectAttempts]_vars

\* A service has used its five reconnects: six of its sockets have closed,
\* its counter stands at 5 and the last close armed no timer.
C33_Witness ==
    \E v \in DOMAIN services :
        /\ services[v].reconnectAttempts = maxReconnectAttempts
        /\ services[v].timers = <<>>
        /\ Cardinality({w \in DOMAIN sockets :
                           sockets[w].svc = v /\ sockets[w].readyState = "CLOSED"})
               = maxReconnectAttempts + 1

\* C34: while the session is connected, the service it references holds an
\* open socket, the one its init arrived on: every open socket with the
\* message handler is the one the referenced service holds, connected turns
\* true only by an init handled there and false only by the close of that
\* socket, and while connected stays true the held socket stays the same.
C34_ConnectedOnCurrentChannel ==
    [][/\ connected => HeldOpen /\ sockets[services[wsService].ws].onmessage
       /\ \A w \in DOMAIN sockets :
              sockets[w].readyState = "OPEN" /\ sockets[w].onmessage =>
                  wsService # NoRef /\ services[wsService].ws = w
       /\ ~connected /\ connected' =>
              /\ lastOp'.name = "Receive" /\ lastOp'.frame.type = "init"
              /\ HeldOpen /\ sockets[services[wsService].ws].onmessage
              /\ UNCHANGED <<wsService, netVars>>
       /\ connected /\ ~connected' =>
              /\ sockets'[services[wsService].ws].readyState = "CLOSED"
              /\ wsService' = wsService
       /\ connected /\ connected' =>
              /\ wsService' = wsService
              /\ services'[wsService].ws = services[wsService].ws]_vars

\* The session is connected on its second service while the service it
\* discarded has opened another socket of its own.
C34_Witness ==
    /\ connected /\ HeldOpen /\ wsService = 2
    /\ \E w \in DOMAIN sockets :
           /\ sockets[w].svc = 1 /\ sockets[w].readyState = "OPEN"
           /\ services[1].ws = w

\* C35: the session is never shown connected and reconnecting at once, and
\* the mounted session that is not connected is never at rest: its reconnect
\* timer is pending, or the socket that initializeWebSocket opened for its
\* service is connecting or open and its init is awaited.
C35_NeverStuckDisconnected ==
    /\ ~(connected /\ isReconnecting)
    /\ mounted /\ ~connected => reconnectTimer.st = "pending" \/ SessionSocketLive

\* After a failure the session waits for the init on the open socket of its
\* second service: the indicator is on and no timer is pending.
C35_Witness ==
    /\ mounted /\ ~connected /\ isReconnecting
    /\ reconnectTimer.st = "null"
    /\ wsService = 2 /\ HeldOpen /\ SessionSocketLive

C37_IndicatorFollowsRequests ==
    mounted =>
        /\ aiLoading => \E r \in DOMAIN requests : requests[r].status = "pending"
        /\ InFlight # {} => aiLoading /\ aiRequestController \in InFlight

====
